---- MODULE Spec2Model ----
(***************************************************************************)
(* A model of the regular_spatial_hash crate: the three coordinate systems *)
(* of coordinates.rs, the hasher of hash.rs, the Bresenham iterator of     *)
(* lines.rs and the SpatialHash container of lib.rs.                       *)
(*                                                                         *)
(* Numbers.  The points handed to the container are integer-valued f32s    *)
(* and the scale parameters are small integers, so every quantity the      *)
(* transforms compute has the form (a + b*sqrt(3))/c with integers a, b, c *)
(* and c > 0.  Such a number is written <<a, b, c>> and floor, ceil, round *)
(* and the comparisons are computed exactly on it.                         *)
(***************************************************************************)
EXTENDS Integers, Sequences, FiniteSets, TLC

\* ------------------------------------------------------------------ bounds
\* number of calls made on one container
MaxOps == 2
\* the stored values are 1..MaxVal
MaxVal == 2
\* floor/ceil/round search their result in -MaxCell..MaxCell
MaxCell == 8
\* the Bresenham endpoints of SpecLine lie in -MaxLine..MaxLine
MaxLine == 3
\* the cells whose ring is computed have their components in -MaxRing..MaxRing
MaxRing == 3
\* the points given in f32 have |x| <= MaxTri, in steps of one half
MaxTri == 3
\* and y up to MaxUlp units in the last place below the f32 of sqrt(3)
MaxUlp == 1

\* ------------------------------------------------------- exact arithmetic
Sq(n) == n * n

\* the sign of a + b*sqrt(3)
SignR3(a, b) ==
    IF a = 0 /\ b = 0 THEN 0
    ELSE IF a >= 0 /\ b >= 0 THEN 1
    ELSE IF a <= 0 /\ b <= 0 THEN -1
    ELSE IF a > 0 THEN (IF Sq(a) > 3 * Sq(b) THEN 1 ELSE -1)
    ELSE (IF 3 * Sq(b) > Sq(a) THEN 1 ELSE -1)

\* f32::floor of (a + b*sqrt(3))/c
floor(v) ==
    CHOOSE n \in -MaxCell..MaxCell :
        /\ SignR3(v[1] - n * v[3], v[2]) >= 0
        /\ SignR3(v[1] - (n + 1) * v[3], v[2]) < 0

Neg(v) == <<-v[1], -v[2], v[3]>>

\* f32::ceil
ceil(v) == -floor(Neg(v))

\* f32::round: to the nearest integer, a half away from zero
round(v) ==
    IF SignR3(v[1], v[2]) >= 0
    THEN floor(<<2 * v[1] + v[3], 2 * v[2], 2 * v[3]>>)
    ELSE -floor(<<-2 * v[1] + v[3], -2 * v[2], 2 * v[3]>>)

\* |n - v| as a number over the denominator of v, made non-negative
AbsDiff(n, v) ==
    LET a == n * v[3] - v[1]
        b == -v[2]
    IN  IF SignR3(a, b) >= 0 THEN <<a, b, v[3]>> ELSE <<-a, -b, v[3]>>

\* u > w for two numbers over the same denominator
Gt(u, w) == SignR3(u[1] - w[1], u[2] - w[2]) > 0

\* ------------------------------------------------------------ coordinates
\* Euclidean::from_euclidean
Euclidean_from_euclidean(x, y, side_len) ==
    [x |-> floor(<<x, 0, side_len>>), y |-> floor(<<y, 0, side_len>>)]

Euclidean_neighbor_indices ==
    << <<-1, -1>>, <<-1, 0>>, <<-1, 1>>,
       <<0, -1>>, <<0, 1>>,
       <<1, -1>>, <<1, 0>>, <<1, 1>> >>

Euclidean_one_ring(c) ==
    [i \in 1..8 |-> [x |-> c.x + Euclidean_neighbor_indices[i][1],
                     y |-> c.y + Euclidean_neighbor_indices[i][2]]]

\* HexAxial::<f32>::new: q = (x*root3/3 - y/3)/circumradius, r = (2y/3)/circumradius
HexAxial_new(x, y, circumradius) ==
    [q |-> <<-y, x, 3 * circumradius>>, r |-> <<2 * y, 0, 3 * circumradius>>]

\* HexAxial::<f32>::s
HexAxial_s(h) == <<-h.q[1] - h.r[1], -h.q[2] - h.r[2], h.q[3]>>

\* HexAxial::<f32>::round
HexAxial_round(h) ==
    LET og_s == HexAxial_s(h)
        q == round(h.q)
        r == round(h.r)
        s == round(og_s)
        q_diff == AbsDiff(q, h.q)
        r_diff == AbsDiff(r, h.r)
        s_diff == AbsDiff(s, og_s)
    IN  IF Gt(q_diff, r_diff) /\ Gt(q_diff, s_diff) THEN [q |-> -r - s, r |-> r]
        ELSE IF Gt(r_diff, s_diff) THEN [q |-> q, r |-> -q - s]
        ELSE [q |-> q, r |-> r]

HexAxial_from_euclidean(x, y, circumradius) ==
    HexAxial_round(HexAxial_new(x, y, circumradius))

HexAxial_neighbor_indices ==
    << <<1, 0>>, <<1, -1>>, <<0, -1>>, <<-1, 0>>, <<-1, 1>>, <<0, 1>> >>

\* HexAxial::one_ring with dq added to r also
HexAxial_one_ring_dq_twice(c) ==
    [i \in 1..6 |-> [q |-> c.q + HexAxial_neighbor_indices[i][1],
                     r |-> c.r + HexAxial_neighbor_indices[i][1]]]

HexAxial_one_ring(c) ==
    [i \in 1..6 |-> [q |-> c.q + HexAxial_neighbor_indices[i][1],
                     r |-> c.r + HexAxial_neighbor_indices[i][2]]]

\* TriCoord::new without its assertion
TriCoord_new(x, y, side_len) ==
    [s |-> ceil(<<3 * x, -y, 3 * side_len>>),
     t |-> floor(<<0, 2 * y, 3 * side_len>>) + 1,
     u |-> ceil(<<-3 * x, -y, 3 * side_len>>)]

\* the condition of the debug_assert! of TriCoord::new and of canon2d
TriCoord_sum_ok(c) == c.s + c.t + c.u = 1 \/ c.s + c.t + c.u = 2

TriCoord_from_euclidean(x, y, side_len) == TriCoord_new(x, y, side_len)

TriCoord_points_up(c) == c.s + c.t + c.u = 2

TriCoord_canon2d(c) ==
    LET sum == c.s + c.t + c.u
    IN  <<2 * c.s + (IF sum = 1 THEN 0 ELSE 1), c.t>>

TriCoord_neighbor_indices(up) ==
    IF up
    THEN << <<-1, 0, 0>>, <<0, -1, 0>>, <<0, 0, -1>>,
            <<-1, 1, 0>>, <<0, -1, 1>>, <<1, 0, -1>>,
            <<1, -1, 0>>, <<0, 1, -1>>, <<-1, 0, 1>>,
            <<1, -1, -1>>, <<-1, 1, -1>>, <<-1, -1, 1>> >>
    ELSE << <<1, 0, 0>>, <<0, 1, 0>>, <<0, 0, 1>>,
            <<-1, 1, 0>>, <<0, -1, 1>>, <<1, 0, -1>>,
            <<1, -1, 0>>, <<0, 1, -1>>, <<-1, 0, 1>>,
            <<-1, 1, 1>>, <<1, -1, 1>>, <<1, 1, -1>> >>

\* TriCoord::one_ring with the table of an upward cell for both orientations
TriCoord_one_ring_up_only(c) ==
    LET d == TriCoord_neighbor_indices(TRUE)
    IN  [i \in 1..12 |-> [s |-> c.s + d[i][1], t |-> c.t + d[i][2], u |-> c.u + d[i][3]]]

TriCoord_one_ring(c) ==
    LET d == TriCoord_neighbor_indices(TriCoord_points_up(c))
    IN  [i \in 1..12 |-> [s |-> c.s + d[i][1], t |-> c.t + d[i][2], u |-> c.u + d[i][3]]]

\* ------------------------------------------------------------------- hash
\* bucket count: the const parameter N of SpatialHash
N == 256

\* The multipliers MS of hash.rs, 1597334677, 3812015801 and 2489301273, reduced
\* modulo N.  The hasher state is a u64 and the bucket index is state % N with N
\* = 2^8, so only the residues modulo 2^8 of the state and of the products decide
\* the index: xor and the wrapping product both commute with the reduction.
MS == <<149, 185, 25>>

RECURSIVE Xor(_, _)
\* bitwise exclusive or of two naturals
Xor(a, b) ==
    IF a = 0 THEN b
    ELSE IF b = 0 THEN a
    ELSE (((a % 2) + (b % 2)) % 2) + 2 * Xor(a \div 2, b \div 2)

\* BuildHasher::build_hasher: a fresh hasher of the container's hash state.  The
\* hash state is a key the hasher starts from; key 0 is SimpleHash::default().
build_hasher(st) == [state |-> st, count |-> 0]

\* SimpleHash::write_i32
write_i32(h, v) ==
    [state |-> Xor(h.state, (v * MS[h.count + 1]) % N), count |-> h.count + 1]

\* SimpleHash::finish
finish(h) == h.state

\* the i32 words the Hash impls of Euclidean, HexAxial and TriCoord write
Euclidean_hash(c) == <<c.x, c.y>>
HexAxial_hash(c) == <<c.q, c.r>>
TriCoord_hash(c) == TriCoord_canon2d(c)

\* SpatialHash::coord_idx on the words a coordinate writes
coord_idx(st, w) == finish(write_i32(write_i32(build_hasher(st), w[1]), w[2])) % N

\* -------------------------------------------------------------- Bresenham
abs(n) == IF n < 0 THEN -n ELSE n
max(a, b) == IF a >= b THEN a ELSE b

\* the captured variables of the closure of lines::bresenham, with the
\* position i of the range 0..=max_iters; done is set once map_while saw None
bresenham_init(p0, p1) ==
    [cx |-> p0[1], cy |-> p0[2],
     error |-> abs(p1[1] - p0[1]) - abs(p1[2] - p0[2]),
     i |-> 0, done |-> FALSE]

\* bresenham_next with max_iters taken from the x extent alone
bresenham_next_short(it, p0, p1) ==
    LET dx == abs(p1[1] - p0[1])
        sx == IF p0[1] < p1[1] THEN 1 ELSE -1
        dy == -abs(p1[2] - p0[2])
        sy == IF p0[2] < p1[2] THEN 1 ELSE -1
        max_iters == abs(p1[1] - p0[1])
        e2 == 2 * it.error
        stepx == e2 >= dy
        error1 == IF stepx THEN it.error + dy ELSE it.error
        cx1 == IF stepx THEN it.cx + sx ELSE it.cx
        stepy == e2 <= dx
        error2 == IF stepy THEN error1 + dx ELSE error1
        cy1 == IF stepy THEN it.cy + sy ELSE it.cy
        stop == [it EXCEPT !.done = TRUE]
    IN  IF it.done \/ it.i > max_iters THEN [it |-> stop, out |-> FALSE]
        ELSE IF it.cx = p1[1] /\ it.cy = p1[2] THEN [it |-> stop, out |-> FALSE]
        ELSE IF stepx /\ it.cx = p1[1] THEN [it |-> stop, out |-> FALSE]
        ELSE IF stepy /\ it.cy = p1[2]
             THEN [it |-> [stop EXCEPT !.cx = cx1, !.error = error1], out |-> FALSE]
        ELSE [it |-> [cx |-> cx1, cy |-> cy1, error |-> error2,
                      i |-> it.i + 1, done |-> FALSE],
              out |-> TRUE]

\* bresenham_next with the two values of sx exchanged
bresenham_next_sx_swapped(it, p0, p1) ==
    LET dx == abs(p1[1] - p0[1])
        sx == IF p0[1] < p1[1] THEN -1 ELSE 1
        dy == -abs(p1[2] - p0[2])
        sy == IF p0[2] < p1[2] THEN 1 ELSE -1
        max_iters == max(abs(p1[1] - p0[1]), abs(p1[2] - p0[2]))
        e2 == 2 * it.error
        stepx == e2 >= dy
        error1 == IF stepx THEN it.error + dy ELSE it.error
        cx1 == IF stepx THEN it.cx + sx ELSE it.cx
        stepy == e2 <= dx
        error2 == IF stepy THEN error1 + dx ELSE error1
        cy1 == IF stepy THEN it.cy + sy ELSE it.cy
        stop == [it EXCEPT !.done = TRUE]
    IN  IF it.done \/ it.i > max_iters THEN [it |-> stop, out |-> FALSE]
        ELSE IF it.cx = p1[1] /\ it.cy = p1[2] THEN [it |-> stop, out |-> FALSE]
        ELSE IF stepx /\ it.cx = p1[1] THEN [it |-> stop, out |-> FALSE]
        ELSE IF stepy /\ it.cy = p1[2]
             THEN [it |-> [stop EXCEPT !.cx = cx1, !.error = error1], out |-> FALSE]
        ELSE [it |-> [cx |-> cx1, cy |-> cy1, error |-> error2,
                      i |-> it.i + 1, done |-> FALSE],
              out |-> TRUE]

\* one call of the closure: the next iterator state, and the cell it yields
\* (out = TRUE) or the end of the sequence (out = FALSE)
bresenham_next(it, p0, p1) ==
    LET dx == abs(p1[1] - p0[1])
        sx == IF p0[1] < p1[1] THEN 1 ELSE -1
        dy == -abs(p1[2] - p0[2])
        sy == IF p0[2] < p1[2] THEN 1 ELSE -1
        max_iters == max(abs(p1[1] - p0[1]), abs(p1[2] - p0[2]))
        e2 == 2 * it.error
        stepx == e2 >= dy
        error1 == IF stepx THEN it.error + dy ELSE it.error
        cx1 == IF stepx THEN it.cx + sx ELSE it.cx
        stepy == e2 <= dx
        error2 == IF stepy THEN error1 + dx ELSE error1
        cy1 == IF stepy THEN it.cy + sy ELSE it.cy
        stop == [it EXCEPT !.done = TRUE]
    IN  IF it.done \/ it.i > max_iters THEN [it |-> stop, out |-> FALSE]
        ELSE IF it.cx = p1[1] /\ it.cy = p1[2] THEN [it |-> stop, out |-> FALSE]
        ELSE IF stepx /\ it.cx = p1[1] THEN [it |-> stop, out |-> FALSE]
        ELSE IF stepy /\ it.cy = p1[2]
             THEN [it |-> [stop EXCEPT !.cx = cx1, !.error = error1], out |-> FALSE]
        ELSE [it |-> [cx |-> cx1, cy |-> cy1, error |-> error2,
                      i |-> it.i + 1, done |-> FALSE],
              out |-> TRUE]

RECURSIVE bresenham_rest(_, _, _)
bresenham_rest(it, p0, p1) ==
    LET n == bresenham_next(it, p0, p1)
    IN  IF n.out THEN <<(<<n.it.cx, n.it.cy>>)>> \o bresenham_rest(n.it, p0, p1)
        ELSE <<>>

\* bresenham without first chained in front of rest
bresenham_rest_only(p0, p1) == bresenham_rest(bresenham_init(p0, p1), p0, p1)

\* lines::bresenham: first.chain(rest), collected
bresenham(p0, p1) == <<p0>> \o bresenham_rest(bresenham_init(p0, p1), p0, p1)

\* -------------------------------------------------------------- container
\* the stored values; T is an integer type here
Vals == 1..MaxVal

\* The points (x, y) the calls are made with.  Under each of the three kinds
\* below they contain two points of one cell and two cells of one bucket, and
\* none of them lies on a tie of the hexagonal rounding.
Points == {<<0, 0>>, <<0, 1>>, <<-2, -2>>, <<2, 2>>, <<3, -2>>, <<3, -1>>}

\* CoordinateKind, with its one parameter (side_len or circumradius)
Kinds ==
    {[tag |-> "Cube", param |-> 2], [tag |-> "Hex", param |-> 1],
     [tag |-> "Tri", param |-> 2]}

\* the hash states S a container is built with
HashStates == {0, 1}

\* the end points add_line_bresenham is called with
LineEnds == {<<0, 0>>, <<2, 2>>, <<3, -2>>}

\* the resolve functions add_with_conflict_resolution is called with
Resolvers == {"max", "new"}

resolve(f, new, existing) == IF f = "max" THEN max(new, existing) ELSE new

VARIABLES
    kind,       \* SpatialHash.kind
    state,      \* SpatialHash.state
    data,       \* SpatialHash.data: bucket index -> (key -> list of values)
    hist,       \* the calls made on the container, in order
    ret,        \* what the last call returned, or handed to its callback
    panicked,   \* a call failed an assertion
    line,       \* a Bresenham iterator of its own: endpoints, closure, cells yielded
    coord       \* a coordinate under computation on its own: input, results so far

vars == <<kind, state, data, hist, ret, panicked, line, coord>>

\* no iterator has been made
NoLine == [p0 |-> <<0, 0>>, p1 |-> <<0, 0>>, it |-> bresenham_init(<<0, 0>>, <<0, 0>>),
           out |-> <<>>]

\* no coordinate is under computation
NoCoord == [tag |-> "none"]

\* BTreeMap::new
EmptyMap == [k \in {} |-> <<>>]

\* BTreeMap::get(..).map(Vec::as_slice).unwrap_or(&[])
Get(m, key) == IF key \in DOMAIN m THEN m[key] ELSE <<>>

\* BTreeMap::insert
Put(m, key, l) == [k \in DOMAIN m \cup {key} |-> IF k = key THEN l ELSE m[k]]

\* entry_push with the list replaced instead of extended (insert(key, vec![t]))
entry_push_overwrite(d, i, key, t) == [d EXCEPT ![i] = Put(d[i], key, <<t>>)]

\* data[i].entry(key).or_insert_with(Vec::new).push(t)
entry_push(d, i, key, t) == [d EXCEPT ![i] = Put(d[i], key, Append(Get(d[i], key), t))]

\* the cell of a point: Self::from_euclidean of the container's kind
from_euclidean(k, p) ==
    IF k.tag = "Cube" THEN Euclidean_from_euclidean(p[1], p[2], k.param)
    ELSE IF k.tag = "Tri" THEN TriCoord_from_euclidean(p[1], p[2], k.param)
    ELSE HexAxial_from_euclidean(p[1], p[2], k.param)

\* the exact key of a cell: [ec.x, ec.y], ec.canon2d() or [ec.q, ec.r]
key_of(k, c) ==
    IF k.tag = "Cube" THEN <<c.x, c.y>>
    ELSE IF k.tag = "Tri" THEN TriCoord_canon2d(c)
    ELSE <<c.q, c.r>>

\* the words a cell hashes
hash_of(k, c) ==
    IF k.tag = "Cube" THEN Euclidean_hash(c)
    ELSE IF k.tag = "Tri" THEN TriCoord_hash(c)
    ELSE HexAxial_hash(c)

\* RegularCoord::NEIGHBORS
NEIGHBORS(k) == IF k.tag = "Cube" THEN 8 ELSE IF k.tag = "Tri" THEN 12 ELSE 6

\* the ring of a cell
one_ring(k, c) ==
    IF k.tag = "Cube" THEN Euclidean_one_ring(c)
    ELSE IF k.tag = "Tri" THEN TriCoord_one_ring(c)
    ELSE HexAxial_one_ring(c)

\* the debug assertions of TriCoord::new and canon2d hold for this point
asserts_ok(k, p) ==
    k.tag = "Tri" => TriCoord_sum_ok(TriCoord_new(p[1], p[2], k.param))

\* SpatialHash::idx
idx(k, st, p) ==
    LET ec == from_euclidean(k, p)
    IN  [idx |-> coord_idx(st, hash_of(k, ec)), key |-> key_of(k, ec)]

\* ring_and_self without the chained cell itself
ring_only(k, p) == one_ring(k, from_euclidean(k, p))

\* ax.one_ring().into_iter().chain(iter::once(ax))
ring_and_self(k, p) ==
    LET ax == from_euclidean(k, p) IN one_ring(k, ax) \o <<ax>>

\* the place of a cell of the container's kind: data[self.coord_idx(hax)] and
\* the key of the entry in it
slot(k, st, hax) == [idx |-> coord_idx(st, hash_of(k, hax)), key |-> key_of(k, hax)]

\* the places add_one_ring and query_one_ring visit, in order
ring_slots(k, st, p) ==
    LET cells == ring_and_self(k, p) IN [i \in DOMAIN cells |-> slot(k, st, cells[i])]

\* the cells add_line_bresenham walks: the path between the keys of its two
\* endpoints
line_path(k, st, l_start, l_end) ==
    bresenham(idx(k, st, l_start).key, idx(k, st, l_end).key)

\* line_slots with the bucket index taken once, from the start point, before
\* the loop
line_slots_start_bucket(k, st, l_start, l_end) ==
    LET path == line_path(k, st, l_start, l_end)
    IN  [i \in DOMAIN path |-> [idx |-> idx(k, st, l_start).idx, key |-> path[i]]]

\* the places add_line_bresenham visits: every path cell [x, y] is hashed as
\* Euclidean { x, y } and stored under [x, y]
line_slots(k, st, l_start, l_end) ==
    LET path == line_path(k, st, l_start, l_end)
    IN  [i \in DOMAIN path |->
            [idx |-> coord_idx(st, Euclidean_hash([x |-> path[i][1], y |-> path[i][2]])),
             key |-> path[i]]]

\* the debug assertions of canon2d hold for every cell add_one_ring and
\* query_one_ring visit
ring_asserts_ok(k, p) ==
    /\ asserts_ok(k, p)
    /\ k.tag = "Tri" =>
         \A i \in DOMAIN ring_and_self(k, p) : TriCoord_sum_ok(ring_and_self(k, p)[i])

\* The functions above, tabulated over the inputs of the calls.
idx_at == [k \in Kinds, st \in HashStates, p \in Points |-> idx(k, st, p)]
asserts_ok_at == [k \in Kinds, p \in Points |-> asserts_ok(k, p)]
ring_asserts_ok_at == [k \in Kinds, p \in Points |-> ring_asserts_ok(k, p)]
ring_slots_at == [k \in Kinds, st \in HashStates, p \in Points |-> ring_slots(k, st, p)]
line_slots_at ==
    [k \in Kinds, st \in HashStates, p \in Points, q \in LineEnds |-> line_slots(k, st, p, q)]

\* a call: the operation, its points p and q, its value and its resolve function
Call(op, p, q, v, f) == [op |-> op, p |-> p, q |-> q, v |-> v, f |-> f]

Init ==
    /\ kind \in Kinds
    /\ state \in HashStates
    /\ data = [i \in 0..(N - 1) |-> EmptyMap]
    /\ hist = <<>>
    /\ ret = [call |-> Call("new", <<0, 0>>, <<0, 0>>, 0, "none"), val |-> <<>>]
    /\ panicked = FALSE
    /\ line = NoLine
    /\ coord = NoCoord

\* a failed assertion: the call does not return and nothing was written
Panic(call) ==
    /\ panicked' = TRUE
    /\ ret' = [call |-> call, val |-> "panic"]
    /\ UNCHANGED <<kind, state, data, hist, line, coord>>

\* SpatialHash::add
add(p, t) ==
    /\ ~panicked /\ Len(hist) < MaxOps
    /\ IF ~asserts_ok_at[kind, p] THEN Panic(Call("add", p, p, t, "none"))
       ELSE LET r == idx_at[kind, state, p]
                d == entry_push(data, r.idx, r.key, t)
            IN  /\ data' = d
                /\ ret' = [call |-> Call("add", p, p, t, "none"), val |-> d[r.idx][r.key]]
                /\ hist' = Append(hist, Call("add", p, p, t, "none"))
                /\ UNCHANGED <<kind, state, panicked, line, coord>>

\* query_of trusting the bucket index alone: the list of the bucket's first key
query_of_bucket_only(k, st, d, p) ==
    LET m == d[idx_at[k, st, p].idx]
    IN  IF DOMAIN m = {} THEN <<>> ELSE m[CHOOSE key \in DOMAIN m : TRUE]

\* SpatialHash::query, as a function of the container
query_of(k, st, d, p) == LET r == idx_at[k, st, p] IN Get(d[r.idx], r.key)

\* SpatialHash::query
query(p) ==
    /\ ~panicked /\ Len(hist) < MaxOps
    /\ IF ~asserts_ok_at[kind, p] THEN Panic(Call("query", p, p, 0, "none"))
       ELSE /\ ret' = [call |-> Call("query", p, p, 0, "none"), val |-> query_of(kind, state, data, p)]
            /\ hist' = Append(hist, Call("query", p, p, 0, "none"))
            /\ UNCHANGED <<kind, state, data, panicked, line, coord>>

\* SpatialHash::same_bin, as a function of the container
same_bin_of(k, st, p, q) == idx_at[k, st, p].key = idx_at[k, st, q].key

\* SpatialHash::same_bin
same_bin(p, q) ==
    /\ ~panicked /\ Len(hist) < MaxOps
    /\ IF ~asserts_ok_at[kind, p] \/ ~asserts_ok_at[kind, q] THEN Panic(Call("same_bin", p, q, 0, "none"))
       ELSE /\ ret' = [call |-> Call("same_bin", p, q, 0, "none"), val |-> same_bin_of(kind, state, p, q)]
            /\ hist' = Append(hist, Call("same_bin", p, q, 0, "none"))
            /\ UNCHANGED <<kind, state, data, panicked, line, coord>>

\* cleared with the loop starting one bucket late
cleared_skip_first(d) == [i \in DOMAIN d |-> IF i = 0 THEN d[i] ELSE EmptyMap]

\* cleared with the lists emptied and their keys kept (Vec::clear on the values)
cleared_keep_keys(d) == [i \in DOMAIN d |-> [k \in DOMAIN d[i] |-> <<>>]]

\* the loop of clear: d.clear() on every bucket
cleared(d) == [i \in DOMAIN d |-> EmptyMap]

\* SpatialHash::clear
clear ==
    /\ ~panicked /\ Len(hist) < MaxOps
    /\ data' = cleared(data)
    /\ ret' = [call |-> Call("clear", <<0, 0>>, <<0, 0>>, 0, "none"), val |-> <<>>]
    /\ hist' = Append(hist, Call("clear", <<0, 0>>, <<0, 0>>, 0, "none"))
    /\ UNCHANGED <<kind, state, panicked, line, coord>>

RECURSIVE for_each_push(_, _, _)
\* the for_each of add_one_ring over the places still to visit: acc.data is the
\* container's data and acc.cb the lists the callback was called with so far
for_each_push(acc, slots, t) ==
    IF slots = <<>> THEN acc
    ELSE LET h == Head(slots)
             d == entry_push(acc.data, h.idx, h.key, t)
         IN  for_each_push([data |-> d, cb |-> Append(acc.cb, d[h.idx][h.key])],
                           Tail(slots), t)

\* SpatialHash::add_one_ring, with a callback that only reads the list
add_one_ring(p, t) ==
    /\ ~panicked /\ Len(hist) < MaxOps
    /\ IF ~ring_asserts_ok_at[kind, p] THEN Panic(Call("add_one_ring", p, p, t, "none"))
       ELSE LET r == for_each_push([data |-> data, cb |-> <<>>],
                                   ring_slots_at[kind, state, p], t)
            IN  /\ data' = r.data
                /\ ret' = [call |-> Call("add_one_ring", p, p, t, "none"), val |-> r.cb]
                /\ hist' = Append(hist, Call("add_one_ring", p, p, t, "none"))
                /\ UNCHANGED <<kind, state, panicked, line, coord>>

\* occupied_assert compiled out
occupied_assert_off(l) == TRUE

\* the condition of assert_eq!(o.get().len(), 1)
occupied_assert(l) == Len(l) = 1

\* occupied_resolve with the arguments of resolve exchanged
occupied_resolve_swapped(l, t, f) ==
    Append(SubSeq(l, 1, Len(l) - 1), resolve(f, l[Len(l)], t))

\* the Entry::Occupied arm after its assertion: resolve(t, v.pop().unwrap())
\* is pushed back
occupied_resolve(l, t, f) ==
    Append(SubSeq(l, 1, Len(l) - 1), resolve(f, t, l[Len(l)]))

\* SpatialHash::add_with_conflict_resolution as a function of the container:
\* the data it leaves and whether its assertion failed
add_with_conflict_resolution_of(k, st, d, p, t, f) ==
    LET r == idx_at[k, st, p]
        m == d[r.idx]
    IN  IF r.key \notin DOMAIN m
        THEN \* Entry::Vacant
             [data |-> [d EXCEPT ![r.idx] = Put(m, r.key, <<t>>)], panic |-> FALSE]
        ELSE IF ~occupied_assert(m[r.key])
        THEN [data |-> d, panic |-> TRUE]
        ELSE [data |-> [d EXCEPT ![r.idx] = Put(m, r.key, occupied_resolve(m[r.key], t, f))],
              panic |-> FALSE]

\* SpatialHash::add_with_conflict_resolution.  A call that fails the assertion
\* ends the run, so it may also be the one call made after MaxOps calls.
add_with_conflict_resolution(p, t, f) ==
    /\ ~panicked
    /\ IF ~asserts_ok_at[kind, p]
       THEN Len(hist) < MaxOps /\ Panic(Call("add_with_conflict_resolution", p, p, t, f))
       ELSE LET r == add_with_conflict_resolution_of(kind, state, data, p, t, f)
            IN  IF r.panic
                THEN Panic(Call("add_with_conflict_resolution", p, p, t, f))
                ELSE /\ Len(hist) < MaxOps
                     /\ data' = r.data
                     /\ ret' = [call |-> Call("add_with_conflict_resolution", p, p, t, f),
                                val |-> <<>>]
                     /\ hist' = Append(hist, Call("add_with_conflict_resolution", p, p, t, f))
                     /\ UNCHANGED <<kind, state, panicked, line, coord>>

RECURSIVE for_push(_, _, _)
\* the for loop of add_line_bresenham over the places still to visit
for_push(d, slots, t) ==
    IF slots = <<>> THEN d
    ELSE for_push(entry_push(d, Head(slots).idx, Head(slots).key, t), Tail(slots), t)

\* SpatialHash::add_line_bresenham
add_line_bresenham(l_start, l_end, t) ==
    /\ ~panicked /\ Len(hist) < MaxOps
    /\ IF ~asserts_ok_at[kind, l_start] \/ ~asserts_ok_at[kind, l_end]
       THEN Panic(Call("add_line_bresenham", l_start, l_end, t, "none"))
       ELSE /\ data' = for_push(data, line_slots_at[kind, state, l_start, l_end], t)
            /\ ret' = [call |-> Call("add_line_bresenham", l_start, l_end, t, "none"), val |-> <<>>]
            /\ hist' = Append(hist, Call("add_line_bresenham", l_start, l_end, t, "none"))
            /\ UNCHANGED <<kind, state, panicked, line, coord>>

RECURSIVE filter_map_get_placeholder(_, _)
\* filter_map_get with an empty list in the place of a missing cell
\* (map(..).unwrap_or(&[]) as in query)
filter_map_get_placeholder(d, slots) ==
    IF slots = <<>> THEN <<>>
    ELSE <<Get(d[Head(slots).idx], Head(slots).key)>>
             \o filter_map_get_placeholder(d, Tail(slots))

RECURSIVE filter_map_get(_, _)
\* the filter_map of query_one_ring over the places still to visit
filter_map_get(d, slots) ==
    IF slots = <<>> THEN <<>>
    ELSE LET h == Head(slots)
             rest == filter_map_get(d, Tail(slots))
         IN  IF h.key \in DOMAIN d[h.idx] THEN <<d[h.idx][h.key]>> \o rest ELSE rest

\* SpatialHash::query_one_ring, collected, as a function of the container
query_one_ring_of(k, st, d, p) == filter_map_get(d, ring_slots_at[k, st, p])

\* SpatialHash::query_one_ring
query_one_ring(p) ==
    /\ ~panicked /\ Len(hist) < MaxOps
    /\ IF ~ring_asserts_ok_at[kind, p] THEN Panic(Call("query_one_ring", p, p, 0, "none"))
       ELSE /\ ret' = [call |-> Call("query_one_ring", p, p, 0, "none"), val |-> query_one_ring_of(kind, state, data, p)]
            /\ hist' = Append(hist, Call("query_one_ring", p, p, 0, "none"))
            /\ UNCHANGED <<kind, state, data, panicked, line, coord>>

Next ==
    \/ \E p \in Points, t \in Vals : add(p, t)
    \/ \E p \in Points : query(p)
    \/ \E p \in Points, q \in Points : same_bin(p, q)
    \/ clear
    \/ \E p \in Points, t \in Vals : add_one_ring(p, t)
    \/ \E p \in Points, t \in Vals, f \in Resolvers : add_with_conflict_resolution(p, t, f)
    \/ \E p \in Points, q \in LineEnds, t \in Vals : add_line_bresenham(p, q, t)
    \/ \E p \in Points : query_one_ring(p)

Spec == Init /\ [][Next]_vars

\* ---------------------------------------------- the Bresenham iterator alone
\* the endpoints of the iterators of SpecLine
LineCoords == -MaxLine..MaxLine

\* lines::bresenham(p0, p1) was called and first was taken from the chain; the
\* container is a fresh one and stays untouched
InitLine ==
    /\ kind = [tag |-> "Cube", param |-> 2]
    /\ state = 0
    /\ data = [i \in 0..(N - 1) |-> EmptyMap]
    /\ hist = <<>>
    /\ ret = [call |-> Call("new", <<0, 0>>, <<0, 0>>, 0, "none"), val |-> <<>>]
    /\ panicked = FALSE
    /\ \E x0 \in LineCoords, y0 \in LineCoords, x1 \in LineCoords, y1 \in LineCoords :
          line = [p0 |-> <<x0, y0>>, p1 |-> <<x1, y1>>,
                  it |-> bresenham_init(<<x0, y0>>, <<x1, y1>>),
                  out |-> <<(<<x0, y0>>)>>]
    /\ coord = NoCoord

\* Iterator::next on rest: one call of the closure
line_next ==
    /\ ~line.it.done
    /\ LET n == bresenham_next(line.it, line.p0, line.p1)
       IN  line' = [line EXCEPT !.it = n.it,
                                !.out = IF n.out THEN Append(@, <<n.it.cx, n.it.cy>>) ELSE @]
    /\ UNCHANGED <<kind, state, data, hist, ret, panicked, coord>>

NextLine == line_next

SpecLine == InitLine /\ [][NextLine]_vars

\* the consumer of the iterator (the for loop of add_line_bresenham, collect)
\* calls next until it returns None
SpecLineFair == SpecLine /\ WF_vars(line_next)

\* ------------------------------------------------------------------ rings
RingCoords == -MaxRing..MaxRing

\* the cells of a tiling: every Euclidean and HexAxial pair, and the TriCoord
\* triples with s + t + u in {1, 2}
RingCells(k) ==
    IF k.tag = "Cube" THEN {[x |-> a, y |-> b] : a \in RingCoords, b \in RingCoords}
    ELSE IF k.tag = "Tri"
    THEN {[s |-> a, t |-> b, u |-> sum - a - b] :
              a \in RingCoords, b \in RingCoords, sum \in {1, 2}}
    ELSE {[q |-> a, r |-> b] : a \in RingCoords, b \in RingCoords}

\* a cell of one of the tilings, no ring computed yet; the container is a fresh
\* one and stays untouched
InitRing ==
    /\ kind \in Kinds
    /\ state = 0
    /\ data = [i \in 0..(N - 1) |-> EmptyMap]
    /\ hist = <<>>
    /\ ret = [call |-> Call("new", <<0, 0>>, <<0, 0>>, 0, "none"), val |-> <<>>]
    /\ panicked = FALSE
    /\ line = NoLine
    /\ \E c \in RingCells(kind) :
          coord = [tag |-> "ring", of |-> c, ring |-> <<>>, via |-> 0, back |-> <<>>]

\* cell.one_ring()
ring_of ==
    /\ coord.tag = "ring" /\ coord.ring = <<>>
    /\ coord' = [coord EXCEPT !.ring = one_ring(kind, coord.of)]
    /\ UNCHANGED <<kind, state, data, hist, ret, panicked, line>>

\* one_ring() of the j-th cell of the ring
ring_back(j) ==
    /\ coord.tag = "ring" /\ coord.ring # <<>> /\ coord.via = 0
    /\ j \in DOMAIN coord.ring
    /\ coord' = [coord EXCEPT !.via = j, !.back = one_ring(kind, coord.ring[j])]
    /\ UNCHANGED <<kind, state, data, hist, ret, panicked, line>>

NextRing ==
    \/ ring_of
    \/ \E j \in 1..12 : ring_back(j)

SpecRing == InitRing /\ [][NextRing]_vars

\* -------------------------------------------------------------------- f32
\* An f32 is [neg, m, e] with the value (-1)^neg * m * 2^e, where m = 0 or
\* 2^23 <= m < 2^24: the 24-bit significand of the IEEE 754 binary32 format.
\* Every operation rounds its exact result to the nearest such value, ties to
\* even, as the hardware does.  Subnormals, infinities and NaN do not occur
\* for the inputs used here and are not modelled.
RECURSIVE Pow2(_)
Pow2(k) == IF k = 0 THEN 1 ELSE 2 * Pow2(k - 1)

RECURSIVE BitLen(_)
\* the number of bits of a natural
BitLen(q) == IF q = 0 THEN 0 ELSE 1 + BitLen(q \div 2)

\* the f32 nearest to (-1)^neg * q * 2^e, ties to even; the lowest bit of q
\* may stand for any non-zero remainder below it provided q has 26 bits or more
F32_round(neg, q, e) ==
    LET len == BitLen(q)
    IN  IF q = 0 THEN [neg |-> neg, m |-> 0, e |-> 0]
        ELSE IF len <= 24
        THEN [neg |-> neg, m |-> q * Pow2(24 - len), e |-> e - (24 - len)]
        ELSE LET k == len - 24
                 m0 == q \div Pow2(k)
                 rem == q % Pow2(k)
                 half == Pow2(k - 1)
                 up == rem > half \/ (rem = half /\ m0 % 2 = 1)
                 m1 == IF up THEN m0 + 1 ELSE m0
             IN  IF m1 = Pow2(24) THEN [neg |-> neg, m |-> Pow2(23), e |-> e + k + 1]
                 ELSE [neg |-> neg, m |-> m1, e |-> e + k]

\* the f32 of the integer n times 2^e, |n| < 2^24
F32(n, e) == F32_round(n < 0, IF n < 0 THEN -n ELSE n, e)

\* unary minus
F32_neg(a) == [a EXCEPT !.neg = ~a.neg]

\* q shifted right by d bits, a non-zero remainder kept in the lowest bit
ShiftSticky(q, d) ==
    IF d >= 30 THEN (IF q = 0 THEN 0 ELSE 1)
    ELSE LET sh == q \div Pow2(d)
         IN  IF q % Pow2(d) # 0 /\ sh % 2 = 0 THEN sh + 1 ELSE sh

\* a + b
F32_add(a, b) ==
    IF a.m = 0 THEN b
    ELSE IF b.m = 0 THEN a
    ELSE LET hi == IF a.e >= b.e THEN a ELSE b
             lo == IF a.e >= b.e THEN b ELSE a
             A == hi.m * 8
             B == ShiftSticky(lo.m * 8, hi.e - lo.e)
             v == (IF hi.neg THEN -A ELSE A) + (IF lo.neg THEN -B ELSE B)
         IN  IF v = 0 THEN [neg |-> FALSE, m |-> 0, e |-> 0]
             ELSE F32_round(v < 0, IF v < 0 THEN -v ELSE v, hi.e - 3)

\* a - b
F32_sub(a, b) == F32_add(a, F32_neg(b))

\* a * b: the 48-bit product of the significands from 12-bit halves
F32_mul(a, b) ==
    LET ah == a.m \div 4096
        al == a.m % 4096
        bh == b.m \div 4096
        bl == b.m % 4096
        mid == ah * bl + al * bh
        low == (mid % 4096) * 4096 + al * bl
        hi == ah * bh + (mid \div 4096) + (low \div Pow2(24))
        lo == low % Pow2(24)
        q == hi * 8 + (lo \div Pow2(21))
        st == lo % Pow2(21) # 0
    IN  IF a.m = 0 \/ b.m = 0 THEN [neg |-> a.neg # b.neg, m |-> 0, e |-> 0]
        ELSE F32_round(a.neg # b.neg, IF st /\ q % 2 = 0 THEN q + 1 ELSE q,
                       a.e + b.e + 21)

RECURSIVE DivBits(_, _, _, _)
\* n more bits of the quotient q with remainder r under the divisor d
DivBits(q, r, d, n) ==
    IF n = 0 THEN [q |-> q, r |-> r]
    ELSE IF 2 * r >= d THEN DivBits(2 * q + 1, 2 * r - d, d, n - 1)
    ELSE DivBits(2 * q, 2 * r, d, n - 1)

\* a / b, b # 0
F32_div(a, b) ==
    LET qr == DivBits(a.m \div b.m, a.m % b.m, b.m, 26)
    IN  IF a.m = 0 THEN [neg |-> a.neg # b.neg, m |-> 0, e |-> 0]
        ELSE F32_round(a.neg # b.neg, 2 * qr.q + (IF qr.r # 0 THEN 1 ELSE 0),
                       a.e - b.e - 27)

\* the integer part of |a| and whether a fraction is left
F32_trunc(a) ==
    IF a.e >= 0 THEN [n |-> a.m * Pow2(a.e), frac |-> FALSE]
    ELSE IF -a.e >= 25 THEN [n |-> 0, frac |-> a.m # 0]
    ELSE [n |-> a.m \div Pow2(-a.e), frac |-> a.m % Pow2(-a.e) # 0]

\* a.floor() as i32
F32_floor(a) ==
    LET tr == F32_trunc(a)
    IN  IF a.neg THEN -tr.n - (IF tr.frac THEN 1 ELSE 0) ELSE tr.n

\* a.ceil() as i32
F32_ceil(a) ==
    LET tr == F32_trunc(a)
    IN  IF a.neg THEN -tr.n ELSE tr.n + (IF tr.frac THEN 1 ELSE 0)

\* (3.0f32).sqrt(): the f32 nearest to the square root of 3, 0x3FDDB3D7
F32_root3 == [neg |-> FALSE, m |-> 14529495, e |-> -23]

\* TriCoord::new in f32, without its assertion
TriCoord_new_f32(x, y, side_len) ==
    LET yr3d3 == F32_div(F32_mul(y, F32_root3), F32(3, 0))
        s == F32_ceil(F32_div(F32_sub(x, yr3d3), side_len))
        t == F32_floor(F32_div(F32_div(F32_mul(F32_mul(y, F32_root3), F32(2, 0)),
                                       F32(3, 0)), side_len))
        u == F32_ceil(F32_div(F32_sub(F32_neg(x), yr3d3), side_len))
    IN  [s |-> s, t |-> t + 1, u |-> u]

\* --------------------------------------------------- triangular cells in f32
\* the x of the points
TriXs == {F32(n, -1) : n \in (-2 * MaxTri)..(2 * MaxTri)}

\* the y of the points: -1, 0, 1 and the f32 values next to sqrt(3)
TriYs == {F32(n, 0) : n \in -1..1}
         \cup {[neg |-> FALSE, m |-> F32_root3.m - j, e |-> F32_root3.e] : j \in 0..MaxUlp}

\* side_len of CoordinateKind::Tri
TriSides == {1, 2}

\* TriCoord::new on every one of these points
tri_cell_at == [side \in TriSides, x \in TriXs, y \in TriYs |->
                   TriCoord_new_f32(x, y, F32(side, 0))]

\* no cell, no key computed yet
NoCell == [s |-> 0, t |-> 0, u |-> 0]
NoKey == <<>>

\* Two points p and q for a triangular container of side_len 1 or 2, in a build
\* with debug assertions on or off; nothing computed yet.  The container is a
\* fresh one and stays untouched.
InitTri ==
    /\ kind \in {[tag |-> "Tri", param |-> side] : side \in TriSides}
    /\ state = 0
    /\ data = [i \in 0..(N - 1) |-> EmptyMap]
    /\ hist = <<>>
    /\ ret = [call |-> Call("new", <<0, 0>>, <<0, 0>>, 0, "none"), val |-> <<>>]
    /\ panicked = FALSE
    /\ line = NoLine
    /\ \E x \in TriXs, y \in TriYs, a \in TriXs, b \in TriYs, debug \in BOOLEAN :
          coord = [tag |-> "tri", at |-> "point", debug |-> debug,
                   p |-> <<x, y>>, q |-> <<a, b>>,
                   cell |-> NoCell, cell_q |-> NoCell, key |-> NoKey, same |-> FALSE]

\* debug_assert!(sum == 1 || sum == 2) on a cell fails in this build
tri_assert_fails(c) == coord.debug /\ ~TriCoord_sum_ok(c)

\* TriCoord::from_euclidean(x, y, side_len) on p
tri_from_euclidean ==
    /\ coord.tag = "tri" /\ coord.at = "point" /\ ~panicked
    /\ LET c == tri_cell_at[kind.param, coord.p[1], coord.p[2]]
       IN  IF tri_assert_fails(c)
           THEN /\ panicked' = TRUE
                /\ coord' = [coord EXCEPT !.at = "new"]
           ELSE /\ panicked' = FALSE
                /\ coord' = [coord EXCEPT !.at = "new", !.cell = c]
    /\ UNCHANGED <<kind, state, data, hist, ret, line>>

\* canon2d() on the cell of p
tri_canon2d ==
    /\ coord.tag = "tri" /\ coord.at = "new" /\ ~panicked
    /\ IF tri_assert_fails(coord.cell)
       THEN /\ panicked' = TRUE
            /\ coord' = [coord EXCEPT !.at = "canon2d"]
       ELSE /\ panicked' = FALSE
            /\ coord' = [coord EXCEPT !.at = "canon2d", !.key = TriCoord_canon2d(coord.cell)]
    /\ UNCHANGED <<kind, state, data, hist, ret, line>>

\* same_bin(x, y, a, b) of a triangular container: idx(x, y).1 == idx(a, b).1
tri_same_bin ==
    /\ coord.tag = "tri" /\ coord.at = "point" /\ ~panicked
    /\ LET c == tri_cell_at[kind.param, coord.p[1], coord.p[2]]
           d == tri_cell_at[kind.param, coord.q[1], coord.q[2]]
       IN  IF tri_assert_fails(c) \/ tri_assert_fails(d)
           THEN /\ panicked' = TRUE
                /\ coord' = [coord EXCEPT !.at = "same_bin"]
           ELSE /\ panicked' = FALSE
                /\ coord' = [coord EXCEPT !.at = "same_bin", !.cell = c, !.cell_q = d,
                                          !.key = TriCoord_canon2d(c),
                                          !.same = (TriCoord_canon2d(c) = TriCoord_canon2d(d))]
    /\ UNCHANGED <<kind, state, data, hist, ret, line>>

NextTri ==
    \/ tri_from_euclidean
    \/ tri_canon2d
    \/ tri_same_bin

SpecTri == InitTri /\ [][NextTri]_vars

\* ------------------------------------------------------------ iteration
\* a < b in the order of the BTreeMap keys [i32; 2]
key_lt(a, b) == a[1] < b[1] \/ (a[1] = b[1] /\ a[2] < b[2])

RECURSIVE bins_iter(_, _)
\* bins.iter().filter_map(..) of iter over the keys still to visit, in key
\* order, before the key is converted to a centre: the entries with a
\* non-empty list
bins_iter(m, keys) ==
    IF keys = {} THEN <<>>
    ELSE LET k == CHOOSE a \in keys : \A b \in keys : a = b \/ key_lt(a, b)
             rest == bins_iter(m, keys \ {k})
         IN  IF m[k] = <<>> THEN rest ELSE <<[key |-> k, vals |-> m[k]]>> \o rest

\* data_iter that stops after the first bucket that has keys
data_iter_first(d, I) ==
    IF I = {} THEN <<>>
    ELSE LET i == CHOOSE a \in I : \A b \in I : a <= b
         IN  bins_iter(d[i], DOMAIN d[i])

RECURSIVE data_iter(_, _)
\* self.data.iter().flat_map(..) of iter over the buckets I still to visit, in
\* index order; a bucket without keys contributes nothing and is left out of I
data_iter(d, I) ==
    IF I = {} THEN <<>>
    ELSE LET i == CHOOSE a \in I : \A b \in I : a <= b
         IN  bins_iter(d[i], DOMAIN d[i]) \o data_iter(d, I \ {i})

\* the entries SpatialHash::iter visits, in order
iter_entries(d) == data_iter(d, {i \in DOMAIN d : DOMAIN d[i] # {}})

\* Euclidean { x: u, y: v }.to_euclidean(side_len) and HexAxial { q: u, r: v }
\* .to_euclidean(circumradius): the continuous centre of the cell of a key.
\* The source holds no such method on integer coordinates; the centre is kept
\* as the key and the scale it is computed from.
to_euclidean(k, key) == [of |-> key, param |-> k.param]

\* the closure of iter reaches todo!(): a triangular container with an entry
iter_todo(k, d) == k.tag = "Tri" /\ iter_entries(d) # <<>>

\* the (coord, vals) pairs iter yields when run to its end
iter_of(k, d) ==
    LET es == iter_entries(d)
    IN  [i \in DOMAIN es |-> [coord |-> to_euclidean(k, es[i].key), vals |-> es[i].vals]]

\* SpatialHash::iter, run to its end
iter ==
    /\ ~panicked /\ Len(hist) < MaxOps
    /\ IF iter_todo(kind, data)
       THEN Panic(Call("iter", <<0, 0>>, <<0, 0>>, 0, "none"))
       ELSE /\ ret' = [call |-> Call("iter", <<0, 0>>, <<0, 0>>, 0, "none"),
                       val |-> iter_of(kind, data)]
            /\ hist' = Append(hist, Call("iter", <<0, 0>>, <<0, 0>>, 0, "none"))
            /\ UNCHANGED <<kind, state, data, panicked, line, coord>>

\* SpatialHash::with_hasher: SpatialHash { state, ..self }
with_hasher(st) ==
    /\ ~panicked /\ Len(hist) < MaxOps
    /\ state' = st
    /\ ret' = [call |-> Call("with_hasher", <<0, 0>>, <<0, 0>>, st, "none"), val |-> <<>>]
    /\ hist' = Append(hist, Call("with_hasher", <<0, 0>>, <<0, 0>>, st, "none"))
    /\ UNCHANGED <<kind, data, panicked, line, coord>>

\* every method of the container
NextFull ==
    \/ Next
    \/ iter
    \/ \E st \in HashStates : with_hasher(st)

SpecFull == Init /\ [][NextFull]_vars

\* ------------------------------------------------------------------ claims
\* the cell of every point
cell_at == [k \in Kinds, p \in Points |-> from_euclidean(k, p)]

ReadOps == {"query", "query_one_ring", "same_bin"}

\* the calls made since construction or since the last clear
since_clear ==
    LET S == {i \in DOMAIN hist : hist[i].op = "clear"}
        last == IF S = {} THEN 0 ELSE CHOOSE i \in S : \A j \in S : j <= i
    IN  SubSeq(hist, last + 1, Len(hist))

\* every call of h is a read or one of ops
only(h, ops) == \A i \in DOMAIN h : h[i].op \in ops \cup ReadOps

Contains(l, v) == \E j \in DOMAIN l : l[j] = v

\* the values of the add calls of h made at points of cell c, in call order
added_at(h, k, c) ==
    LET sel == SelectSeq(h, LAMBDA e : e.op = "add" /\ cell_at[k, e.p] = c)
    IN  [i \in DOMAIN sel |-> sel[i].v]

\* the (bucket, key) pairs of the stored lists
entries(d) == UNION {{<<i, k>> : k \in DOMAIN d[i]} : i \in {j \in DOMAIN d : DOMAIN d[j] # {}}}

RECURSIVE sum_lens(_, _)
sum_lens(d, E) ==
    IF E = {} THEN 0
    ELSE LET e == CHOOSE x \in E : TRUE
         IN  Len(d[e[1]][e[2]]) + sum_lens(d, E \ {e})

\* the number of values stored across all buckets
total(d) == sum_lens(d, entries(d))

\* C1: while only add, add_one_ring, add_line_bresenham and the read calls have
\* been made (no clear, no conflict resolution), query at the point of every
\* add made so far returns a list that contains the added value, under each
\* tiling kind.
C1_AddedIsQueried ==
    only(hist, {"add", "add_one_ring", "add_line_bresenham"}) =>
        \A i \in DOMAIN hist :
            hist[i].op = "add" =>
                Contains(query_of(kind, state, data, hist[i].p), hist[i].v)

\* C1 witness: under the triangular tiling a value was added at one point and a
\* query at another point of the same cell returned it.
C1_Witness ==
    /\ kind.tag = "Tri" /\ Len(hist) = 2
    /\ hist[1].op = "add" /\ hist[2].op = "query"
    /\ hist[2].p # hist[1].p
    /\ ret.val = <<hist[1].v>>

\* C2: in a container filled by add alone since construction or the last
\* clear, query at any point returns exactly the values added at the points of
\* the same cell, in call order: nothing of another cell, also of one in the
\* same bucket, and the empty list for a cell never written.  A query call
\* returns this list.
C2_QueryExact ==
    /\ only(since_clear, {"add"}) =>
          \A p \in Points :
              query_of(kind, state, data, p) = added_at(since_clear, kind, cell_at[kind, p])
    /\ (ret.call.op = "query" /\ ~panicked) =>
          ret.val = query_of(kind, state, data, ret.call.p)

\* C2 witness: a value was added to one cell and a query at a point of another
\* cell, which hashes to the same bucket, returned the empty list.
C2_Witness ==
    /\ Len(hist) = 2 /\ hist[1].op = "add" /\ hist[2].op = "query"
    /\ cell_at[kind, hist[1].p] # cell_at[kind, hist[2].p]
    /\ idx_at[kind, state, hist[1].p].idx = idx_at[kind, state, hist[2].p].idx
    /\ ret.val = <<>>

\* C3: after add and read calls alone since construction or the last clear, the
\* number of stored values equals the number of those add calls.
C3_CountIsAdds ==
    only(since_clear, {"add"}) =>
        total(data) = Len(SelectSeq(since_clear, LAMBDA e : e.op = "add"))

\* C3 witness: two values were added to one cell and two values are stored.
C3_Witness ==
    /\ Len(hist) = 2 /\ hist[1].op = "add" /\ hist[2].op = "add"
    /\ cell_at[kind, hist[1].p] = cell_at[kind, hist[2].p]
    /\ total(data) = 2

\* C4: a clear call leaves every bucket empty and the kind, the hash state and
\* the N buckets as they were, so the container equals a freshly constructed
\* one: query and query_one_ring at any point and iter yield nothing.
C4_ClearEmpties ==
    [][ret'.call.op = "clear" =>
          /\ data' = [i \in 0..(N - 1) |-> EmptyMap]
          /\ kind' = kind /\ state' = state /\ ~panicked'
          /\ \A p \in Points :
                /\ query_of(kind', state', data', p) = <<>>
                /\ query_one_ring_of(kind', state', data', p) = <<>>
          /\ iter_entries(data') = <<>>]_vars

\* C4 witness: clear was called on a container that add_one_ring had filled.
C4_Witness ==
    /\ Len(hist) = 2 /\ hist[1].op = "add_one_ring" /\ hist[2].op = "clear"
    /\ ret.call.op = "clear" /\ total(data) = 0

\* the single value add_with_conflict_resolution leaves in cell c after the
\* calls of h, starting from the list acc
RECURSIVE resolved_at(_, _, _, _)
resolved_at(h, k, c, acc) ==
    IF h = <<>> THEN acc
    ELSE LET e == Head(h)
             hit == e.op = "add_with_conflict_resolution" /\ cell_at[k, e.p] = c
             nxt == IF ~hit THEN acc
                    ELSE IF acc = <<>> THEN <<e.v>>
                    ELSE <<resolve(e.f, e.v, acc[1])>>
         IN  resolved_at(Tail(h), k, c, nxt)

\* C5: in a container filled by add_with_conflict_resolution alone since
\* construction or the last clear, no call fails, every stored list holds one
\* value, and the list of a cell is the first value given for it, replaced at
\* every later call on the cell by resolve(new, existing).
C5_OneValuePerCell ==
    only(since_clear, {"add_with_conflict_resolution"}) =>
        /\ ~panicked
        /\ \A e \in entries(data) : Len(data[e[1]][e[2]]) = 1
        /\ \A p \in Points :
              query_of(kind, state, data, p)
                  = resolved_at(since_clear, kind, cell_at[kind, p], <<>>)

\* C5 witness: two calls with the resolver max at two points of one cell, the
\* larger value first, left the larger value alone in the cell.
C5_Witness ==
    /\ Len(hist) = 2
    /\ hist[1].op = "add_with_conflict_resolution" /\ hist[1].f = "max"
    /\ hist[2].op = "add_with_conflict_resolution" /\ hist[2].f = "max"
    /\ hist[1].p # hist[2].p /\ cell_at[kind, hist[1].p] = cell_at[kind, hist[2].p]
    /\ hist[1].v > hist[2].v
    /\ query_of(kind, state, data, hist[2].p) = <<hist[1].v>>

\* C6: in every state, a call of add_with_conflict_resolution on a cell that
\* holds more than one value fails its assertion and leaves the stored data
\* as it was; and a call that failed was made on such a cell.
C6_ConflictAsserts ==
    /\ \A p \in Points, t \in Vals, f \in Resolvers :
          Len(query_of(kind, state, data, p)) > 1 =>
              LET r == add_with_conflict_resolution_of(kind, state, data, p, t, f)
              IN  r.panic /\ r.data = data
    /\ (panicked /\ ret.call.op = "add_with_conflict_resolution") =>
          Len(query_of(kind, state, data, ret.call.p)) > 1

\* C6 witness: the call failed on a cell that an add_one_ring and an add had
\* filled with two values.
C6_Witness ==
    /\ panicked /\ ret.call.op = "add_with_conflict_resolution"
    /\ Len(hist) = 2 /\ hist[1].op = "add_one_ring" /\ hist[2].op = "add"
    /\ cell_at[kind, hist[1].p] # cell_at[kind, hist[2].p]
    /\ Len(query_of(kind, state, data, ret.call.p)) = 2

\* the cells of the ring of the cell of p, and that cell
ring_cells(k, p) ==
    {one_ring(k, cell_at[k, p])[j] : j \in 1..NEIGHBORS(k)} \cup {cell_at[k, p]}

\* C7: add_one_ring(p, v) appends v once to the list of the cell of p and of
\* each of its NEIGHBORS ring cells, NEIGHBORS + 1 distinct cells, and changes
\* no other list; the callback is called once for each of these cells with the
\* cell's list, which ends in v; afterwards query at any point of one of these
\* cells contains v.
C7_RingAdded ==
    [][(ret'.call.op = "add_one_ring" /\ ~panicked') =>
          LET p == ret'.call.p
              v == ret'.call.v
              c == cell_at[kind, p]
              ring == one_ring(kind, c)
              place(x) == <<coord_idx(state, hash_of(kind, x)), key_of(kind, x)>>
              touched == {place(x) : x \in ring_cells(kind, p)}
              cb == ret'.val
          IN  /\ Cardinality(ring_cells(kind, p)) = NEIGHBORS(kind) + 1
              /\ Cardinality(touched) = NEIGHBORS(kind) + 1
              /\ entries(data') = entries(data) \cup touched
              /\ \A e \in entries(data') :
                    data'[e[1]][e[2]] =
                        IF e \in touched THEN Append(Get(data[e[1]], e[2]), v)
                        ELSE data[e[1]][e[2]]
              /\ Len(cb) = NEIGHBORS(kind) + 1
              /\ \A j \in 1..NEIGHBORS(kind) :
                    cb[j] = data'[place(ring[j])[1]][place(ring[j])[2]]
              /\ cb[NEIGHBORS(kind) + 1] = data'[place(c)[1]][place(c)[2]]
              /\ \A j \in DOMAIN cb : cb[j][Len(cb[j])] = v
              /\ \A q \in Points :
                    cell_at[kind, q] \in ring_cells(kind, p) =>
                        Contains(query_of(kind', state', data', q), v)]_vars

\* C7 witness: add_one_ring at one point, after an add at a point of a
\* neighbouring cell, made query at that point return both values.
C7_Witness ==
    /\ Len(hist) = 2 /\ hist[1].op = "add" /\ hist[2].op = "add_one_ring"
    /\ ret.call.op = "add_one_ring"
    /\ cell_at[kind, hist[1].p] # cell_at[kind, hist[2].p]
    /\ cell_at[kind, hist[1].p] \in ring_cells(kind, hist[2].p)
    /\ query_of(kind, state, data, hist[1].p) = <<hist[1].v, hist[2].v>>

RECURSIVE sum_len(_)
\* the number of values in a sequence of lists
sum_len(ls) == IF ls = <<>> THEN 0 ELSE Len(Head(ls)) + sum_len(Tail(ls))

\* C8: query_one_ring(p) yields the list of every cell among the cell of p and
\* its NEIGHBORS ring cells that has an entry, each once, and nothing for the
\* others: at most NEIGHBORS + 1 lists, none of them empty; in a container
\* filled by add alone the values it yields are as many as the adds made at
\* points of these cells.  A query_one_ring call returns these lists.
C8_RingQueried ==
    /\ \A p \in Points :
          LET slots == ring_slots_at[kind, state, p]
              lists == [j \in DOMAIN slots |-> Get(data[slots[j].idx], slots[j].key)]
              r == query_one_ring_of(kind, state, data, p)
          IN  /\ Len(r) <= NEIGHBORS(kind) + 1
              /\ \A j \in DOMAIN r : r[j] # <<>>
              /\ Cardinality({slots[j] : j \in DOMAIN slots}) = Len(slots)
              /\ r = SelectSeq(lists, LAMBDA l : l # <<>>)
              /\ only(since_clear, {"add"}) =>
                    sum_len(r) = Cardinality({i \in DOMAIN since_clear :
                                    /\ since_clear[i].op = "add"
                                    /\ cell_at[kind, since_clear[i].p] \in ring_cells(kind, p)})
    /\ (ret.call.op = "query_one_ring" /\ ~panicked) =>
          ret.val = query_one_ring_of(kind, state, data, ret.call.p)

\* C8 witness: after an add, query_one_ring at a point of a neighbouring cell
\* yielded the one list of the added value, and at a point of a cell that is
\* no neighbour it yields nothing.
C8_Witness ==
    /\ Len(hist) = 2 /\ hist[1].op = "add" /\ hist[2].op = "query_one_ring"
    /\ cell_at[kind, hist[1].p] # cell_at[kind, hist[2].p]
    /\ ret.val = <<(<<hist[1].v>>)>>
    /\ \E q \in Points : query_one_ring_of(kind, state, data, q) = <<>>

\* the step appended v once to the list stored under every cell of the
\* Bresenham path from cell ks to cell ke, each in the bucket of its
\* square-grid hash, and changed no other list
line_appended(ks, ke, v) ==
    LET path == bresenham(ks, ke)
        place(c) == <<coord_idx(state, Euclidean_hash([x |-> c[1], y |-> c[2]])), c>>
        touched == {place(path[j]) : j \in DOMAIN path}
    IN  /\ Cardinality(touched) = Len(path)
        /\ entries(data') = entries(data) \cup touched
        /\ \A e \in entries(data') :
              data'[e[1]][e[2]] =
                  IF e \in touched THEN Append(Get(data[e[1]], e[2]), v)
                  ELSE data[e[1]][e[2]]

\* the square-grid coordinates (floor(x/scale), floor(y/scale)) of a point
square_of(k, p) ==
    LET c == Euclidean_from_euclidean(p[1], p[2], k.param) IN <<c.x, c.y>>

\* the exact key of the cell of a point in the container's tiling
exact_key(k, p) == key_of(k, cell_at[k, p])

\* C9 as stated: add_line_bresenham(start, end, v) walks the Bresenham path
\* between the square-grid coordinates of its end points whatever the tiling
\* kind, appends v once to every cell of it and to no other, and afterwards
\* query(start) and query(end) contain v.
C9_SquareGridPath ==
    [][(ret'.call.op = "add_line_bresenham" /\ ~panicked') =>
          /\ line_appended(square_of(kind, ret'.call.p), square_of(kind, ret'.call.q),
                           ret'.call.v)
          /\ Contains(query_of(kind', state', data', ret'.call.p), ret'.call.v)
          /\ Contains(query_of(kind', state', data', ret'.call.q), ret'.call.v)]_vars

\* C9 amended: add_line_bresenham(start, end, v) walks the Bresenham path
\* between the exact keys of the cells of its end points in the container's
\* tiling (the square-grid coordinates under Cube, (q, r) under Hex, the
\* canonical pair under Tri), appends v once to the list stored under every
\* cell [x, y] of the path and to no other, and afterwards query(start) and
\* query(end) contain v.
C9_KeyPath ==
    [][(ret'.call.op = "add_line_bresenham" /\ ~panicked') =>
          /\ line_appended(exact_key(kind, ret'.call.p), exact_key(kind, ret'.call.q),
                           ret'.call.v)
          /\ Contains(query_of(kind', state', data', ret'.call.p), ret'.call.v)
          /\ Contains(query_of(kind', state', data', ret'.call.q), ret'.call.v)]_vars

\* C9 witness: under the triangular tiling a line was added between two points
\* whose keys are not their square-grid coordinates, over a path of three
\* cells or more, and query at both end points returns its value.
C9_Witness ==
    /\ kind.tag = "Tri" /\ Len(hist) = 1 /\ ret.call.op = "add_line_bresenham"
    /\ exact_key(kind, ret.call.p) # square_of(kind, ret.call.p)
    /\ exact_key(kind, ret.call.q) # square_of(kind, ret.call.q)
    /\ Len(bresenham(exact_key(kind, ret.call.p), exact_key(kind, ret.call.q))) >= 3
    /\ total(data) = Len(bresenham(exact_key(kind, ret.call.p), exact_key(kind, ret.call.q)))
    /\ query_of(kind, state, data, ret.call.p) = <<ret.call.v>>
    /\ query_of(kind, state, data, ret.call.q) = <<ret.call.v>>

\* C10: the cells bresenham(p0, p1) yields start with p0, each next one
\* differs from the one before by at most 1 in each axis, none repeats, and
\* when the iterator ends the last one is p1; the collected sequence is what
\* the iterator yielded.
C10_BresenhamPath ==
    LET out == line.out
    IN  line # NoLine =>
        /\ out[1] = line.p0
        /\ \A j \in 1..(Len(out) - 1) :
              /\ abs(out[j + 1][1] - out[j][1]) <= 1
              /\ abs(out[j + 1][2] - out[j][2]) <= 1
        /\ \A i \in DOMAIN out : \A j \in DOMAIN out : i # j => out[i] # out[j]
        /\ line.it.done =>
              /\ out[Len(out)] = line.p1
              /\ out = bresenham(line.p0, line.p1)

\* C10 witness: an iterator over a steep segment that runs to the left and
\* upwards has ended after four cells or more.
C10_Witness ==
    /\ line.it.done /\ Len(line.out) >= 4
    /\ line.p1[1] < line.p0[1] /\ line.p1[2] > line.p0[2]
    /\ abs(line.p1[2] - line.p0[2]) > abs(line.p1[1] - line.p0[1])
    /\ line.out[Len(line.out)] = line.p1

\* the cells yielded so far are at most max(|dx|, |dy|) + 1, the closure was
\* called at most max_iters + 1 times, and every cell lies between p0 and p1
\* in x and in y
bresenham_bounded ==
    LET x0 == line.p0[1]
        y0 == line.p0[2]
        x1 == line.p1[1]
        y1 == line.p1[2]
        m == max(abs(x1 - x0), abs(y1 - y0))
    IN  /\ Len(line.out) <= m + 1
        /\ line.it.i <= m + 1
        /\ \A j \in DOMAIN line.out :
              /\ line.out[j][1] >= -max(-x0, -x1) /\ line.out[j][1] <= max(x0, x1)
              /\ line.out[j][2] >= -max(-y0, -y1) /\ line.out[j][2] <= max(y0, y1)

\* C11: bresenham(p0, p1) terminates, yields at most max(|dx|, |dy|) + 1
\* cells, and every yielded x lies between x0 and x1 and every yielded y
\* between y0 and y1.
C11_BresenhamBounded == [](line # NoLine => bresenham_bounded) /\ <>(line.it.done)

\* C11 witness: an iterator over a segment with dx # dy, both non-zero, has
\* ended after exactly max(|dx|, |dy|) + 1 cells, four or more.
C11_Witness ==
    /\ line.it.done
    /\ line.p0[1] # line.p1[1] /\ line.p0[2] # line.p1[2]
    /\ abs(line.p1[1] - line.p0[1]) # abs(line.p1[2] - line.p0[2])
    /\ Len(line.out) = max(abs(line.p1[1] - line.p0[1]), abs(line.p1[2] - line.p0[2])) + 1
    /\ Len(line.out) >= 4

\* C12: one_ring(cell) returns exactly NEIGHBORS cells (8 square, 6 hex, 12
\* triangular for either orientation), pairwise distinct, none of them the
\* cell itself.
C12_RingShape ==
    (coord.tag = "ring" /\ coord.ring # <<>>) =>
        /\ Len(coord.ring) = NEIGHBORS(kind)
        /\ NEIGHBORS(kind) = (CASE kind.tag = "Cube" -> 8 [] kind.tag = "Hex" -> 6
                                [] kind.tag = "Tri" -> 12)
        /\ \A i \in DOMAIN coord.ring : \A j \in DOMAIN coord.ring :
              i # j => coord.ring[i] # coord.ring[j]
        /\ \A i \in DOMAIN coord.ring : coord.ring[i] # coord.of

\* C12 witness: the ring of a downward triangular cell was computed and has
\* twelve cells.
C12_Witness ==
    /\ coord.tag = "ring" /\ kind.tag = "Tri" /\ ~TriCoord_points_up(coord.of)
    /\ Cardinality({coord.ring[i] : i \in DOMAIN coord.ring}) = 12

\* C13: for every cell A and every B in one_ring(A), A is in one_ring(B), in
\* the triangular tiling also when B has the other orientation.
C13_RingSymmetric ==
    (coord.tag = "ring" /\ coord.via # 0) =>
        \E i \in DOMAIN coord.back : coord.back[i] = coord.of

\* C13 witness: the ring of an upward triangular cell led to a downward cell
\* whose ring, from the other table, holds the first cell.
C13_Witness ==
    /\ coord.tag = "ring" /\ kind.tag = "Tri" /\ coord.via # 0
    /\ TriCoord_points_up(coord.of) /\ ~TriCoord_points_up(coord.ring[coord.via])
    /\ TriCoord_sum_ok(coord.ring[coord.via])
    /\ \E i \in DOMAIN coord.back : coord.back[i] = coord.of

\* the sum s + t + u the f32 transform of TriCoord::new gives for p
raw_sum ==
    LET c == tri_cell_at[kind.param, coord.p[1], coord.p[2]]
    IN  c.s + c.t + c.u

\* C14: for every point and side_len the transform of TriCoord::new returns a
\* triple with s + t + u equal to 1 or 2, so the assertions of TriCoord::new
\* and canon2d never fail for a coordinate produced from a point.
C14_TriSumValid ==
    (coord.tag = "tri" /\ coord.at # "point") =>
        /\ ~panicked
        /\ raw_sum \in {1, 2}
        /\ TriCoord_sum_ok(coord.cell)

\* C16: when the raw sum is exactly 0 the conversion of a point retries and
\* returns a valid coordinate instead of failing; any other sum outside {1, 2}
\* is a fatal assertion.
C16_ZeroSumRetried ==
    (coord.tag = "tri" /\ coord.at = "new") =>
        /\ raw_sum = 0 => (~panicked /\ TriCoord_sum_ok(coord.cell))
        /\ raw_sum \notin {0, 1, 2} => panicked

\* canon2d gives different keys to different triangular cells with s + t + u
\* in {1, 2}
canon2d_injective ==
    \A c1 \in RingCells([tag |-> "Tri"]) : \A c2 \in RingCells([tag |-> "Tri"]) :
        TriCoord_canon2d(c1) = TriCoord_canon2d(c2) => c1 = c2

\* C17: canon2d(s, t, u) = (2s + parity, t) is injective on the triangular
\* cells with s + t + u in {1, 2}, and same_bin, which compares these keys, is
\* true iff the two points fall in the same cell.
C17_SameBinIffSameCell ==
    /\ canon2d_injective
    /\ (coord.tag = "tri" /\ coord.at = "same_bin" /\ ~panicked) =>
          (coord.same <=> coord.cell = coord.cell_q)

\* what iter yielded is one pair for every stored list, holding that list
iter_exact ==
    /\ Len(ret.val) = Cardinality(entries(data))
    /\ \A e \in entries(data) :
          Cardinality({j \in DOMAIN ret.val :
                          ret.val[j].coord = to_euclidean(kind, e[2])}) = 1
    /\ \A e \in entries(data) : \A j \in DOMAIN ret.val :
          ret.val[j].coord = to_euclidean(kind, e[2]) => ret.val[j].vals = data[e[1]][e[2]]
    /\ \A j \in DOMAIN ret.val : ret.val[j].vals # <<>>

\* C15 as stated: iter yields exactly one (centre, values) pair for every cell
\* that holds a value, with that cell's list, under Cube, Hex and Tri alike,
\* nothing for an empty container, and never fails.
C15_IterAllKinds ==
    ret.call.op = "iter" => (~panicked /\ iter_exact)

\* C15 amended: under Cube and Hex iter yields exactly one (centre, values)
\* pair for every cell that holds a value, with that cell's list; it yields
\* nothing for an empty container of any kind; run on a Tri container that
\* holds a value it fails at todo!().
C15_IterCubeHex ==
    ret.call.op = "iter" =>
        IF kind.tag = "Tri" /\ entries(data) # {} THEN panicked
        ELSE ~panicked /\ iter_exact

\* C15 witness: iter on a hexagonal container yielded the lists of cells of
\* two buckets or more.
C15_Witness ==
    /\ ret.call.op = "iter" /\ ~panicked /\ kind.tag = "Hex"
    /\ Len(ret.val) >= 2
    /\ Cardinality({e[1] : e \in entries(data)}) >= 2

\* C18: while the hash strategy is not replaced, every key stored in bucket i
\* satisfies i = hash(key) mod N with 0 <= i < N, whichever operation
\* inserted it, so a key is stored in at most one bucket, and every stored
\* list is non-empty.
C18_BucketOfKey ==
    /\ \A e \in entries(data) :
          /\ e[1] = coord_idx(state, e[2])
          /\ e[1] >= 0 /\ e[1] < N
          /\ data[e[1]][e[2]] # <<>>
    /\ \A e \in entries(data) : \A g \in entries(data) : e[2] = g[2] => e[1] = g[1]

\* C18 witness: a triangular container holds the cells of a line of three
\* cells or more and of a second insert of another kind, in three buckets or
\* more.
C18_Witness ==
    /\ kind.tag = "Tri" /\ Len(hist) = 2
    /\ hist[1].op = "add_line_bresenham"
    /\ hist[2].op \in {"add", "add_one_ring", "add_with_conflict_resolution"}
    /\ Cardinality(entries(data)) >= 4
    /\ Cardinality({e[1] : e \in entries(data)}) >= 3

\* C19: with_hasher(state) replaces only the hash strategy: the kind and all
\* stored cells and values are kept and, also on a container that holds
\* values, every value added before the call is still returned by query at
\* the point it was added at.
C19_WithHasherKeeps ==
    [][(Len(hist') = Len(hist) + 1 /\ hist'[Len(hist')].op = "with_hasher") =>
          /\ kind' = kind /\ data' = data
          /\ only(hist, {"add"} \cup ReadOps) =>
                \A j \in DOMAIN hist :
                    hist[j].op = "add" =>
                        Contains(query_of(kind', state', data', hist[j].p), hist[j].v)]_vars

====
